---- MODULE Spec2Model ----
(***************************************************************************)
(* LiveVariantCaller (variant_caller/live_variant_caller.py): the          *)
(* incremental evidence accumulator, its checkpointing and the             *)
(* filter / scoring / emission pass of write_vcf.                          *)
(*                                                                         *)
(* A Python dict is modelled as the sequence of its items [k, v] in        *)
(* insertion order, which is the order Python iterates it in.              *)
(* Probabilities are exact rationals [n, d].                               *)
(***************************************************************************)
EXTENDS Integers, Sequences, FiniteSets, TLC

VARIABLES
    config,         \* the thresholds given to __init__
    memory,         \* self.memory: [type |-> "dict", val |-> items], or
                    \* [type |-> "int", val |-> n] once load_checkpoint bound it to a key
    checkpoint,     \* the checkpoint file: NoFile or the pickled object
    vcf,            \* the records written to the output file, in order
    phredArgs,      \* the arguments the last write_vcf passed to to_phred_scale
    readsIngested,  \* history: the number of reads ingested so far
    lastCall,       \* the method called last
    raised,         \* the exception the last call ended with, "none" if it returned
    ingestedDepth,  \* history: per coordinate, the reads of all columns ingested since the last reset
    ingestedQuals   \* history: per coordinate and base, the qualities of the ingested reads showing it

vars == <<config, memory, checkpoint, vcf, phredArgs, lastCall, raised,
          readsIngested, ingestedDepth, ingestedQuals>>

----------------------------------------------------------------------------
(* Bounds of the model *)

\* number of coordinates of the reference sequence that reads cover
NumPositions == 2
\* most reads in one pileup column
MaxColumnReads == 2
\* most reads ingested over the whole run
MaxReads == 3

Bases == <<"A", "C", "G", "T">>

Positions == 0 .. (NumPositions - 1)

\* the reference sequence the FASTA file holds
Reference == [p \in 1 .. NumPositions |-> Bases[((p - 1) % 4) + 1]]

\* the reads a column can hold: (base, quality) of an aligned read, a deletion, a reference skip
Pileups ==
    { [is_del |-> FALSE, is_refskip |-> FALSE, base |-> "A", quality |-> 10],
      [is_del |-> FALSE, is_refskip |-> FALSE, base |-> "G", quality |-> 10],
      [is_del |-> FALSE, is_refskip |-> FALSE, base |-> "G", quality |-> 0],
      [is_del |-> FALSE, is_refskip |-> FALSE, base |-> "T", quality |-> 10],
      [is_del |-> TRUE,  is_refskip |-> FALSE, base |-> "-", quality |-> 0],
      [is_del |-> FALSE, is_refskip |-> TRUE,  base |-> "-", quality |-> 0] }

ReadBases == { p.base : p \in { q \in Pileups : ~q.is_del /\ ~q.is_refskip } }

PileupSeqs == UNION { [1 .. n -> Pileups] : n \in 1 .. MaxColumnReads }

PileupColumns == [reference_pos : Positions, pileups : PileupSeqs]

\* the constructor's arguments
Configs ==
    { [minTotalDepth |-> 1, minEvidenceDepth |-> 1, minEvidenceRatio |-> [n |-> 1, d |-> 2], maxVariants |-> 0],
      [minTotalDepth |-> 2, minEvidenceDepth |-> 1, minEvidenceRatio |-> [n |-> 0, d |-> 1], maxVariants |-> 2],
      [minTotalDepth |-> 0, minEvidenceDepth |-> 0, minEvidenceRatio |-> [n |-> 0, d |-> 1], maxVariants |-> 1] }

----------------------------------------------------------------------------
(* Python dict: items in insertion order *)

Has(d, k) == \E i \in 1 .. Len(d) : d[i].k = k

Get(d, k) == d[CHOOSE i \in 1 .. Len(d) : d[i].k = k].v

Put(d, k, v) ==
    IF Has(d, k)
    THEN [i \in 1 .. Len(d) |-> IF d[i].k = k THEN [k |-> k, v |-> v] ELSE d[i]]
    ELSE Append(d, [k |-> k, v |-> v])

EmptyDict == << >>

IsDict(m) == m.type = "dict"

DictObj(items) == [type |-> "dict", val |-> items]

IntObj(n) == [type |-> "int", val |-> n]

----------------------------------------------------------------------------
(* Ingestion *)

\* a later read of a base overwrites the list stored for it instead of appending to it
OverwriteQualities(mem, position, pileup) ==
    IF ~pileup.is_del /\ ~pileup.is_refskip
    THEN LET site == Get(mem, position)
         IN  Put(mem, position,
                 [site EXCEPT !.baseQualities =
                     Put(site.baseQualities, pileup.base,
                         IF ~Has(site.baseQualities, pileup.base)
                         THEN << >> ELSE <<pileup.quality>>)])
    ELSE mem

\* lines 91-101
process_pileup_at_position(mem, position, pileup) ==
    IF ~pileup.is_del /\ ~pileup.is_refskip
    THEN LET site == Get(mem, position)
             base == pileup.base
         IN  IF ~Has(site.baseQualities, base)
             THEN Put(mem, position,
                      [site EXCEPT !.baseQualities = Put(site.baseQualities, base, << >>)])
             ELSE Put(mem, position,
                      [site EXCEPT !.baseQualities =
                          Put(site.baseQualities, base,
                              Append(Get(site.baseQualities, base), pileup.quality))])
    ELSE mem

RECURSIVE ForEachPileup(_, _, _)
ForEachPileup(mem, position, pileups) ==
    IF pileups = << >>
    THEN mem
    ELSE ForEachPileup(process_pileup_at_position(mem, position, Head(pileups)),
                       position, Tail(pileups))

\* a later column overwrites the depth instead of adding to it
ObserveOverwrite(mem, pileupColumn) ==
    Put(mem, pileupColumn.reference_pos,
        IF Has(mem, pileupColumn.reference_pos)
        THEN [Get(mem, pileupColumn.reference_pos) EXCEPT !.totalDepth = Len(pileupColumn.pileups)]
        ELSE [reference     |-> Reference[pileupColumn.reference_pos + 1],
              totalDepth    |-> Len(pileupColumn.pileups),
              baseQualities |-> EmptyDict])

\* lines 75-86: create the Site with the column's read count, or add the count to it
Observe(mem, pileupColumn) ==
    LET totalDepth == Len(pileupColumn.pileups)
        pos == pileupColumn.reference_pos
    IN  IF ~Has(mem, pos)
        THEN Put(mem, pos, [reference     |-> Reference[pos + 1],
                            totalDepth    |-> totalDepth,
                            baseQualities |-> EmptyDict])
        ELSE Put(mem, pos, [Get(mem, pos) EXCEPT !.totalDepth = @ + totalDepth])

process_pileup_column(mem, pileupColumn) ==
    ForEachPileup(Observe(mem, pileupColumn), pileupColumn.reference_pos, pileupColumn.pileups)

\* history of the input: the reads and the shown qualities of the ingested columns
RECURSIVE ShownQualities(_, _)
ShownQualities(pileups, base) ==
    IF pileups = << >>
    THEN << >>
    ELSE LET p == Head(pileups)
         IN  (IF ~p.is_del /\ ~p.is_refskip /\ p.base = base THEN <<p.quality>> ELSE << >>)
             \o ShownQualities(Tail(pileups), base)

NoDepth == [p \in Positions |-> 0]

NoQuals == [p \in Positions |-> [b \in ReadBases |-> << >>]]

\* history of the input after one more column
DepthAfter(depth, pileupColumn) ==
    [depth EXCEPT ![pileupColumn.reference_pos] = @ + Len(pileupColumn.pileups)]

QualsAfter(quals, pileupColumn) ==
    [quals EXCEPT ![pileupColumn.reference_pos] =
        [b \in ReadBases |-> @[b] \o ShownQualities(pileupColumn.pileups, b)]]

\* lines 74-89, called on its own
ProcessPileupColumn(pileupColumn) ==
    /\ readsIngested + Len(pileupColumn.pileups) <= MaxReads
    /\ lastCall' = "process_pileup_column"
    /\ IF IsDict(memory)
       THEN /\ memory' = DictObj(process_pileup_column(memory.val, pileupColumn))
            /\ raised' = "none"
            /\ readsIngested' = readsIngested + Len(pileupColumn.pileups)
            /\ ingestedDepth' = DepthAfter(ingestedDepth, pileupColumn)
            /\ ingestedQuals' = QualsAfter(ingestedQuals, pileupColumn)
       ELSE \* "reference_pos not in self.memory" on an int
            /\ raised' = "TypeError"
            /\ UNCHANGED <<memory, readsIngested, ingestedDepth, ingestedQuals>>
    /\ UNCHANGED <<config, checkpoint, vcf, phredArgs>>

ColumnsAt(pos, budget) ==
    { c \in PileupColumns : c.reference_pos = pos /\ Len(c.pileups) <= budget }

\* the pileups an input file can yield: columns in ascending coordinate order, at most
\* one per coordinate (none for a file without reads), of at most budget reads together
RECURSIVE BamsFrom(_, _)
BamsFrom(pos, budget) ==
    IF pos >= NumPositions
    THEN { << >> }
    ELSE BamsFrom(pos + 1, budget)
         \cup UNION { { <<c>> \o rest : rest \in BamsFrom(pos + 1, budget - Len(c.pileups)) } :
                      c \in ColumnsAt(pos, budget) }

RECURSIVE BamReads(_)
BamReads(bam) ==
    IF bam = << >> THEN 0 ELSE Len(Head(bam).pileups) + BamReads(Tail(bam))

\* lines 68-69
RECURSIVE ForEachColumn(_, _)
ForEachColumn(state, bam) ==
    IF bam = << >>
    THEN state
    ELSE ForEachColumn([memory |-> process_pileup_column(state.memory, Head(bam)),
                        depth  |-> DepthAfter(state.depth, Head(bam)),
                        quals  |-> QualsAfter(state.quals, Head(bam))],
                       Tail(bam))

\* lines 52-72
ProcessBam(bam) ==
    /\ lastCall' = "process_bam"
    /\ IF IsDict(memory) \/ bam = << >>
       THEN LET end == ForEachColumn([memory |-> memory.val, depth |-> ingestedDepth,
                                      quals |-> ingestedQuals], bam)
            IN  /\ memory' = IF bam = << >> THEN memory ELSE DictObj(end.memory)
                /\ raised' = "none"
                /\ readsIngested' = readsIngested + BamReads(bam)
                /\ ingestedDepth' = end.depth
                /\ ingestedQuals' = end.quals
       ELSE \* "reference_pos not in self.memory" on an int, at the first column
            /\ raised' = "TypeError"
            /\ UNCHANGED <<memory, readsIngested, ingestedDepth, ingestedQuals>>
    /\ UNCHANGED <<config, checkpoint, vcf, phredArgs>>

\* lines 33-34
ResetMemory ==
    /\ memory' = DictObj(EmptyDict)
    /\ ingestedDepth' = NoDepth
    /\ ingestedQuals' = NoQuals
    /\ lastCall' = "reset_memory"
    /\ raised' = "none"
    /\ UNCHANGED <<config, checkpoint, vcf, phredArgs, readsIngested>>

----------------------------------------------------------------------------
(* Exact rational arithmetic for the probabilities: [n, d] is n / d *)

RECURSIVE GCD(_, _)
GCD(a, b) == IF b = 0 THEN a ELSE GCD(b, a % b)

Rat(n, d) == [n |-> n, d |-> d]

ROne == Rat(1, 1)

RZero == Rat(0, 1)

RIsZero(a) == a.n = 0

RAdd(a, b) ==
    LET g == GCD(a.d, b.d)
    IN  Rat(a.n * (b.d \div g) + b.n * (a.d \div g), (a.d \div g) * b.d)

RMul(a, b) == Rat(a.n * b.n, a.d * b.d)

\* a / b, cancelling across before multiplying
RDiv(a, b) ==
    LET g1 == GCD(a.n, b.n)
        g2 == GCD(a.d, b.d)
    IN  IF a.n = 0 THEN RZero
        ELSE Rat((a.n \div g1) * (b.d \div g2), (a.d \div g2) * (b.n \div g1))

ROneMinus(a) == Rat(a.d - a.n, a.d)

RECURSIVE Pow10(_)
Pow10(k) == IF k = 0 THEN 1 ELSE 10 * Pow10(k - 1)

\* floor(n * 10^digits / d) by long division
RECURSIVE LongDiv(_, _, _)
LongDiv(n, d, digits) ==
    IF digits = 0
    THEN n \div d
    ELSE (n \div d) * Pow10(digits) + LongDiv((n % d) * 10, d, digits - 1)

\* 10^(-(2r-1)/20) for r = 1 .. 10, to five digits: -10*log10(x) rounds to r or more
\* exactly when x is at most the r-th of these
PhredSteps == <<89125, 70794, 56234, 44668, 35481, 28183, 22387, 17782, 14125, 11220>>

\* round(-10 * log10(n / d)) for 0 < n / d <= 1
RECURSIVE RoundedPhred(_, _)
RoundedPhred(n, d) ==
    LET m == LongDiv(n, d, 5)
    IN  IF m <= PhredSteps[10]
        THEN 10 + RoundedPhred(n * 10, d)
        ELSE Cardinality({ r \in 1 .. 9 : m <= PhredSteps[r] })

----------------------------------------------------------------------------
(* variant_caller/utils.py *)

\* 10^(-quality/10), for the qualities the reads carry (multiples of 10)
from_phred_scale(quality) == Rat(1, Pow10(quality \div 10))

\* round(-10 * log10(probability)), 0 at probability 1; the probability is in (0, 1]
to_phred_scale(probability) == RoundedPhred(probability.n, probability.d)

\* the likelihood of one read under the hypothesis: 1 - e if it shows the allele, e / 3 if not
ReadLikelihood(matches, e) ==
    IF matches THEN Rat(3 * (e.d - e.n), 3 * e.d) ELSE Rat(e.n, 3 * e.d)

RECURSIVE ProductOver(_, _)
ProductOver(matches, probabilities) ==
    IF probabilities = << >>
    THEN ROne
    ELSE RMul(ReadLikelihood(matches, Head(probabilities)),
              ProductOver(matches, Tail(probabilities)))

\* the raw product over all reads of the site, not normalised
RECURSIVE genotype_likelihood_from(_, _, _)
genotype_likelihood_from(allele, errorProbabilities, i) ==
    IF i > Len(errorProbabilities)
    THEN ROne
    ELSE RMul(ProductOver(errorProbabilities[i].k = allele, errorProbabilities[i].v),
              genotype_likelihood_from(allele, errorProbabilities, i + 1))

genotype_likelihood(allele, errorProbabilities) ==
    genotype_likelihood_from(allele, errorProbabilities, 1)

----------------------------------------------------------------------------
(* write_vcf: filter, score, sort, truncate, write *)

\* lines 159-165: the stored qualities of every allele as error probabilities
RECURSIVE MapFromPhred(_)
MapFromPhred(qualities) ==
    IF qualities = << >>
    THEN << >>
    ELSE <<from_phred_scale(Head(qualities))>> \o MapFromPhred(Tail(qualities))

ErrorProbabilities(site) ==
    [i \in 1 .. Len(site.baseQualities) |->
        [k |-> site.baseQualities[i].k, v |-> MapFromPhred(site.baseQualities[i].v)]]

\* lines 167-170
GenotypeLikelihoods(errorProbabilities) ==
    [i \in 1 .. Len(errorProbabilities) |->
        [k |-> errorProbabilities[i].k,
         v |-> genotype_likelihood(errorProbabilities[i].k, errorProbabilities)]]

\* line 172: functools.reduce(operator.add, values, 0.0)
RECURSIVE ReduceAdd(_, _)
ReduceAdd(genotypeLikelihoods, i) ==
    IF i = 0
    THEN RZero
    ELSE RAdd(ReduceAdd(genotypeLikelihoods, i - 1), genotypeLikelihoods[i].v)

\* lines 172-173
SumGenotypeLikelihoods(genotypeLikelihoods) ==
    LET sum == ReduceAdd(genotypeLikelihoods, Len(genotypeLikelihoods))
    IN  IF ~RIsZero(sum) THEN sum ELSE ROne

\* the evidence-ratio condition is left out
PassesFiltersNoRatio(cfg, site, allele, evidenceDepth) ==
    /\ site.reference # allele
    /\ evidenceDepth >= cfg.minEvidenceDepth

\* lines 180-186
PassesFilters(cfg, site, allele, evidenceDepth) ==
    /\ site.reference # allele
    /\ evidenceDepth >= cfg.minEvidenceDepth
    /\ evidenceDepth * cfg.minEvidenceRatio.d >= cfg.minEvidenceRatio.n * site.totalDepth

\* line 196: the argument of to_phred_scale
ScoreArgument(genotypeLikelihood, sumGenotypeLikelihoods) ==
    ROneMinus(RDiv(genotypeLikelihood, sumGenotypeLikelihoods))

\* lines 189-194: gl is kept as the number whose log10 it is (1 for gl = 0)
GLOf(genotypeLikelihood) ==
    IF ~RIsZero(genotypeLikelihood) THEN [log10 |-> genotypeLikelihood] ELSE [log10 |-> ROne]

PLOf(genotypeLikelihood) ==
    IF ~RIsZero(genotypeLikelihood)
    THEN RoundedPhred(genotypeLikelihood.n, genotypeLikelihood.d)
    ELSE 0

\* line 197: np.mean; 0/0 (nan) for an empty list
RECURSIVE SumOver(_)
SumOver(probabilities) ==
    IF probabilities = << >> THEN RZero
    ELSE RAdd(Head(probabilities), SumOver(Tail(probabilities)))

Mean(probabilities) ==
    LET sum == SumOver(probabilities)
    IN  Rat(IF probabilities = << >> THEN 0 ELSE sum.n, sum.d * Len(probabilities))

\* lines 199-214
Variant(position, site, allele, errorProbabilities, genotypeLikelihood, sumGenotypeLikelihoods) ==
    [start   |-> position,
     stop    |-> position + 1,
     alleles |-> <<site.reference, allele>>,
     qual    |-> Mean(errorProbabilities),
     info    |-> [TD    |-> site.totalDepth,
                  ED    |-> Len(errorProbabilities),
                  GL    |-> GLOf(genotypeLikelihood),
                  PL    |-> PLOf(genotypeLikelihood),
                  SCORE |-> to_phred_scale(ScoreArgument(genotypeLikelihood, sumGenotypeLikelihoods))]]

\* lines 175-214: the alleles from the i-th on. ok is FALSE when to_phred_scale was
\* given 0, which is outside its domain: the loop stops there.
RECURSIVE FilterFrom(_, _, _, _, _, _)
FilterFrom(cfg, position, site, errorProbabilities, genotypeLikelihoods, i) ==
    IF i > Len(errorProbabilities)
    THEN [variants |-> << >>, args |-> << >>, ok |-> TRUE]
    ELSE LET allele == errorProbabilities[i].k
             evidenceDepth == Len(errorProbabilities[i].v)
             sum == SumGenotypeLikelihoods(genotypeLikelihoods)
             arg == ScoreArgument(genotypeLikelihoods[i].v, sum)
             rest == FilterFrom(cfg, position, site, errorProbabilities, genotypeLikelihoods, i + 1)
         IN  IF ~PassesFilters(cfg, site, allele, evidenceDepth)
             THEN rest
             ELSE IF RIsZero(arg)
             THEN [variants |-> << >>, args |-> <<arg>>, ok |-> FALSE]
             ELSE [variants |-> <<Variant(position, site, allele, errorProbabilities[i].v,
                                          genotypeLikelihoods[i].v, sum)>> \o rest.variants,
                   args     |-> <<arg>> \o rest.args,
                   ok       |-> rest.ok]

\* sorted(variants, key=SCORE): stable
RECURSIVE InsertByScore(_, _)
InsertByScore(sorted, variant) ==
    IF sorted = << >>
    THEN <<variant>>
    ELSE IF variant.info.SCORE < Head(sorted).info.SCORE
         THEN <<variant>> \o sorted
         ELSE <<Head(sorted)>> \o InsertByScore(Tail(sorted), variant)

RECURSIVE SortedByScore(_)
SortedByScore(variants) ==
    IF variants = << >>
    THEN << >>
    ELSE InsertByScore(SortedByScore(SubSeq(variants, 1, Len(variants) - 1)),
                       variants[Len(variants)])

\* "index <= maxVariants": one record too many
TruncatedOneMore(cfg, sorted) ==
    SubSeq(sorted, 1, IF cfg.maxVariants = 0 \/ Len(sorted) < cfg.maxVariants + 1
                      THEN Len(sorted) ELSE cfg.maxVariants + 1)

\* lines 216-226
Truncated(cfg, sorted) ==
    SubSeq(sorted, 1, IF cfg.maxVariants = 0 \/ Len(sorted) < cfg.maxVariants
                      THEN Len(sorted) ELSE cfg.maxVariants)

\* lines 158-226 for one position
SitePass(cfg, position, site) ==
    IF site.totalDepth >= cfg.minTotalDepth
    THEN LET errorProbabilities == ErrorProbabilities(site)
             found == FilterFrom(cfg, position, site, errorProbabilities,
                                 GenotypeLikelihoods(errorProbabilities), 1)
         IN  [records |-> IF found.ok THEN Truncated(cfg, SortedByScore(found.variants)) ELSE << >>,
              args    |-> found.args,
              ok      |-> found.ok]
    ELSE [records |-> << >>, args |-> << >>, ok |-> TRUE]

\* lines 157-226: the positions from the i-th on, in the order of self.memory
RECURSIVE WriteFrom(_, _, _)
WriteFrom(cfg, mem, i) ==
    IF i > Len(mem)
    THEN [records |-> << >>, args |-> << >>, ok |-> TRUE]
    ELSE LET here == SitePass(cfg, mem[i].k, mem[i].v)
             rest == WriteFrom(cfg, mem, i + 1)
         IN  IF here.ok
             THEN [records |-> here.records \o rest.records,
                   args    |-> here.args \o rest.args,
                   ok      |-> rest.ok]
             ELSE here

\* math.log10(0) raises ValueError; numpy's log10(0) is -inf, and rounding it raises OverflowError
DomainErrors == {"ValueError", "OverflowError"}

WriteVcf ==
    /\ lastCall' = "write_vcf"
    /\ IF IsDict(memory)
       THEN LET out == WriteFrom(config, memory.val, 1)
            IN  /\ vcf' = out.records
                /\ phredArgs' = out.args
                /\ IF out.ok THEN raised' = "none" ELSE raised' \in DomainErrors
       ELSE \* len(self.memory.keys()) on an int, before the output file is opened
            /\ raised' = "AttributeError"
            /\ UNCHANGED <<vcf, phredArgs>>
    /\ UNCHANGED <<config, memory, checkpoint, readsIngested, ingestedDepth, ingestedQuals>>

----------------------------------------------------------------------------
(* Checkpoints *)

NoFile == [type |-> "nofile", val |-> 0]

\* pickle.dump then pickle.load give back an equal object
Pickled(obj) == [type |-> "pickle", val |-> obj]

Unpickled(file) == file.val

CreateCheckpoint ==
    /\ checkpoint' = Pickled(memory)
    /\ lastCall' = "create_checkpoint"
    /\ raised' = "none"
    /\ UNCHANGED <<config, memory, vcf, phredArgs, readsIngested, ingestedDepth, ingestedQuals>>

\* line 49, "self.memory, = obj": unpack an iterable of exactly one element.
\* Iterating a dict yields its keys.
UnpackOne(obj) ==
    IF ~IsDict(obj)
    THEN [raised |-> "TypeError", bound |-> FALSE, val |-> obj]
    ELSE IF Len(obj.val) # 1
    THEN [raised |-> "ValueError", bound |-> FALSE, val |-> obj]
    ELSE [raised |-> "none", bound |-> TRUE, val |-> IntObj(obj.val[1].k)]

LoadCheckpoint ==
    /\ lastCall' = "load_checkpoint"
    /\ IF checkpoint = NoFile
       THEN /\ raised' = "FileNotFoundError"
            /\ UNCHANGED memory
       ELSE LET got == UnpackOne(Unpickled(checkpoint))
            IN  /\ raised' = got.raised
                /\ memory' = IF got.bound THEN got.val ELSE memory
    /\ UNCHANGED <<config, checkpoint, vcf, phredArgs, readsIngested, ingestedDepth, ingestedQuals>>

----------------------------------------------------------------------------

Init ==
    /\ config \in Configs
    /\ memory = DictObj(EmptyDict)
    /\ checkpoint = NoFile
    /\ vcf = << >>
    /\ phredArgs = << >>
    /\ lastCall = "__init__"
    /\ raised = "none"
    /\ readsIngested = 0
    /\ ingestedDepth = NoDepth
    /\ ingestedQuals = NoQuals

Next ==
    \/ \E pileupColumn \in PileupColumns : ProcessPileupColumn(pileupColumn)
    \/ \E bam \in BamsFrom(0, MaxReads - readsIngested) : ProcessBam(bam)
    \/ ResetMemory
    \/ WriteVcf
    \/ CreateCheckpoint
    \/ LoadCheckpoint

Spec == Init /\ [][Next]_vars

----------------------------------------------------------------------------
(* What the claims speak of *)

StoredOf(site, base) ==
    IF Has(site.baseQualities, base) THEN Get(site.baseQualities, base) ELSE << >>

AllelesOf(site) == { site.baseQualities[i].k : i \in 1 .. Len(site.baseQualities) }

\* the alleles of a Site that the filter conditions let through
CandidatesOf(site) ==
    IF site.totalDepth >= config.minTotalDepth
    THEN { a \in AllelesOf(site) :
             /\ a # site.reference
             /\ Len(StoredOf(site, a)) >= config.minEvidenceDepth
             /\ Len(StoredOf(site, a)) * config.minEvidenceRatio.d
                    >= config.minEvidenceRatio.n * site.totalDepth }
    ELSE {}

LikelihoodOf(site, a) == Get(GenotypeLikelihoods(ErrorProbabilities(site)), a)

ScoreArgumentOf(site, a) ==
    ScoreArgument(LikelihoodOf(site, a),
                  SumGenotypeLikelihoods(GenotypeLikelihoods(ErrorProbabilities(site))))

\* scoring a candidate of the Site leaves the domain of to_phred_scale
ScoringFails(site) == \E a \in CandidatesOf(site) : RIsZero(ScoreArgumentOf(site, a))

\* the filter pass of the i-th Site of the map was reached and ran to its end
YieldsCandidates(i) == \A j \in 1 .. i : ~ScoringFails(memory.val[j].v)

RecordsAt(position) == SelectSeq(vcf, LAMBDA r : r.start = position)

IsPrefix(s, t) == Len(s) <= Len(t) /\ SubSeq(t, 1, Len(s)) = s

AfterWriteVcf == lastCall = "write_vcf" /\ IsDict(memory)

\* every genotype likelihood of the Site is zero
Degenerate(site) ==
    /\ AllelesOf(site) # {}
    /\ \A a \in AllelesOf(site) : RIsZero(LikelihoodOf(site, a))

----------------------------------------------------------------------------
(* Claims *)

\* C1: accumulation law. While the memory is a Site map, a coordinate has a Site exactly
\* when a column was ingested for it since the last reset, and the Site's totalDepth is the
\* sum of the read counts of all those columns.
AccumulationLaw ==
    IsDict(memory) =>
        \A pos \in Positions :
            /\ Has(memory.val, pos) <=> ingestedDepth[pos] > 0
            /\ Has(memory.val, pos) => Get(memory.val, pos).totalDepth = ingestedDepth[pos]

\* a Site holding more reads than one column can carry, beside a Site of another coordinate
AccumulatedOverColumns ==
    /\ IsDict(memory)
    /\ Len(memory.val) > 1
    /\ \E pos \in Positions :
          /\ Has(memory.val, pos)
          /\ Get(memory.val, pos).totalDepth >= 2
          /\ Get(memory.val, pos).totalDepth = ingestedDepth[pos]

\* C2: the list stored for a base holds one quality per ingested read showing the base,
\* in ingestion order, the first read included.
OneQualityPerRead ==
    IsDict(memory) =>
        \A pos \in Positions : \A b \in ReadBases :
            Has(memory.val, pos) =>
                StoredOf(Get(memory.val, pos), b) = ingestedQuals[pos][b]

\* C3: with maxVariants = 0, after write_vcf has returned, a record exists for a
\* non-reference allele of a Site with enough total depth exactly when the ingested reads
\* showing it are enough in number and in ratio, and it carries TD and ED = that number.
EmissionFromReads ==
    (AfterWriteVcf /\ raised = "none" /\ config.maxVariants = 0) =>
        \A pos \in Positions : \A b \in ReadBases :
            (/\ Has(memory.val, pos)
             /\ Get(memory.val, pos).totalDepth >= config.minTotalDepth
             /\ ingestedQuals[pos][b] # << >>) =>
                LET site == Get(memory.val, pos)
                    shown == Len(ingestedQuals[pos][b])
                    written == SelectSeq(RecordsAt(pos), LAMBDA r : r.alleles[2] = b)
                    due == /\ b # site.reference
                           /\ shown >= config.minEvidenceDepth
                           /\ shown * config.minEvidenceRatio.d
                                >= config.minEvidenceRatio.n * site.totalDepth
                IN  /\ Len(written) = (IF due THEN 1 ELSE 0)
                    /\ \A i \in 1 .. Len(written) :
                          /\ written[i].info.TD = ingestedDepth[pos]
                          /\ written[i].info.ED = shown

\* C4: filter soundness. Every record of the file write_vcf wrote comes from a Site with
\* totalDepth >= minTotalDepth, names an alternate allele other than the reference base,
\* and has ED >= minEvidenceDepth and ED / TD >= minEvidenceRatio, TD being the Site's
\* totalDepth and ED the length of the list stored for the allele.
FilterSoundness ==
    AfterWriteVcf =>
        \A i \in 1 .. Len(vcf) :
            LET r == vcf[i]
            IN  /\ Has(memory.val, r.start)
                /\ LET site == Get(memory.val, r.start)
                   IN  /\ site.totalDepth >= config.minTotalDepth
                       /\ r.alleles[1] = site.reference
                       /\ r.alleles[2] # site.reference
                       /\ r.info.TD = site.totalDepth
                       /\ r.info.ED = Len(StoredOf(site, r.alleles[2]))
                       /\ Has(site.baseQualities, r.alleles[2])
                       /\ r.info.ED >= config.minEvidenceDepth
                       /\ r.info.ED * config.minEvidenceRatio.d
                            >= config.minEvidenceRatio.n * r.info.TD

\* a record was written for an allele that the ratio condition alone would not have stopped
\* from being a strict minority of the reads
RecordWritten ==
    /\ AfterWriteVcf
    /\ \E i \in 1 .. Len(vcf) : vcf[i].info.ED >= 1 /\ vcf[i].info.ED < vcf[i].info.TD

CheckpointRoundTrip ==
    (lastCall = "load_checkpoint" /\ checkpoint # NoFile /\ IsDict(Unpickled(checkpoint))) =>
        /\ raised = "none"
        /\ memory = Unpickled(checkpoint)

\* C7: load_checkpoint is all-or-nothing. A load leaves the memory a Site map: the map
\* stored in the checkpoint when it returns, the map it was before when it fails.
LoadAllOrNothing ==
    [][lastCall' = "load_checkpoint" =>
          \/ /\ raised' = "none"
             /\ IsDict(memory')
             /\ checkpoint # NoFile
             /\ memory' = Unpickled(checkpoint)
          \/ /\ raised' # "none"
             /\ memory' = memory]_vars

\* C8: Sites are only cleared explicitly. A step of process_bam, process_pileup_column, write_vcf or
\* create_checkpoint removes no Site, lowers no totalDepth and removes no stored quality;
\* write_vcf and create_checkpoint leave the memory as it is; and the map becomes empty
\* by reset_memory alone.
OnlyResetClears ==
    [][/\ (lastCall' \in {"process_bam", "process_pileup_column", "write_vcf", "create_checkpoint"}
              /\ IsDict(memory)) =>
             /\ IsDict(memory')
             /\ \A i \in 1 .. Len(memory.val) :
                   LET pos == memory.val[i].k
                       site == memory.val[i].v
                   IN  /\ Has(memory'.val, pos)
                       /\ Get(memory'.val, pos).reference = site.reference
                       /\ Get(memory'.val, pos).totalDepth >= site.totalDepth
                       /\ \A a \in AllelesOf(site) :
                             IsPrefix(StoredOf(site, a), StoredOf(Get(memory'.val, pos), a))
       /\ lastCall' \in {"write_vcf", "create_checkpoint"} => memory' = memory
       /\ (memory # DictObj(EmptyDict) /\ memory' = DictObj(EmptyDict)) =>
             lastCall' = "reset_memory"]_vars

\* a Site with a stored quality that a third read of the same base was ingested into
GrownSite ==
    /\ lastCall \in {"process_bam", "process_pileup_column"}
    /\ IsDict(memory)
    /\ \E pos \in Positions :
          /\ Has(memory.val, pos)
          /\ \E a \in AllelesOf(Get(memory.val, pos)) : Len(StoredOf(Get(memory.val, pos), a)) >= 2

\* C9: degenerate likelihoods. When every genotype likelihood of a Site is zero, write_vcf
\* does not fail there, every candidate of the Site that truncation leaves room for is
\* written with GL = 0 and PL = 0, and its SCORE is not 0, the value the ascending
\* ranking treats as the most confident.
DegenerateIsLowConfidence ==
    AfterWriteVcf =>
        \A i \in 1 .. Len(memory.val) :
            LET site == memory.val[i].v
                w == RecordsAt(memory.val[i].k)
            IN  (/\ YieldsCandidates(i - 1)
                 /\ site.totalDepth >= config.minTotalDepth
                 /\ Degenerate(site)) =>
                    /\ YieldsCandidates(i)
                    /\ (config.maxVariants = 0 \/ Cardinality(CandidatesOf(site)) <= config.maxVariants)
                          => { w[j].alleles[2] : j \in 1 .. Len(w) } = CandidatesOf(site)
                    /\ \A j \in 1 .. Len(w) :
                          /\ w[j].info.GL = [log10 |-> ROne]
                          /\ w[j].info.PL = 0
                          /\ w[j].info.SCORE # 0

\* C10: score domain. Every argument write_vcf passed to to_phred_scale lies in (0, 1].
ScoreArgumentInDomain ==
    lastCall = "write_vcf" =>
        \A i \in 1 .. Len(phredArgs) :
            /\ phredArgs[i].n > 0
            /\ phredArgs[i].n <= phredArgs[i].d

====
